---- MODULE Spec2Model ----
(***************************************************************************)
(* State-machine model of the Telegram notes bot: src/bot.py (handlers,    *)
(* conversation handlers and their registration order, the credential file *)
(* helpers) and src/modules/auth.py (the library form of the credential    *)
(* store).                                                                 *)
(*                                                                         *)
(* Updates are processed one at a time (ApplicationBuilder() is built      *)
(* without concurrent_updates), so a handler runs to completion before the *)
(* next update is dispatched.  The only thing that can cut a handler short *)
(* is the process being killed; the handlers that write the credential     *)
(* file are therefore split at the file-system calls, with Crash enabled   *)
(* between them.                                                           *)
(*                                                                         *)
(* Message texts are sequences of characters, so that str.strip() is       *)
(* computed and not assumed.  Timestamps (created_at) are not modelled.    *)
(***************************************************************************)
EXTENDS Integers, Sequences, FiniteSets, TLC

VARIABLES
    usersFile,        \* content of users.json
    tmpFile,          \* content of users.tmp
    bakFile,          \* content of users.corrupt.bak
    active_sessions,  \* bot.py:41
    user_sections,    \* bot.py:42
    register_conv,    \* state of register_conv per user (bot.py:356)
    login_conv,       \* state of login_conv per user (bot.py:364)
    add_section_conv, \* state of add_section_conv per user (bot.py:372)
    user_data,        \* context.user_data per user
    pc,               \* position inside a handler that is writing the file
    pending,          \* the write in flight: who, previous and new document
    ev,               \* the last handler that ran, for whom, and its reply
    registered        \* history: username -> password of its last committed registration

vars == <<usersFile, tmpFile, bakFile, active_sessions, user_sections,
          register_conv, login_conv, add_section_conv, user_data,
          pc, pending, ev, registered>>

-----------------------------------------------------------------------------
(* Bounds and input alphabets *)

MaxSections == 2

UserIds == {1, 2}
Salts == {1, 2}
UsernameInputs == {<<"a">>, <<" ", "a">>}
TwoUsernameInputs == {<<"a">>, <<" ", "b">>}
PasswordInputs == {<<"p">>, <<"q", " ">>}
TitleInputs == {<<"N">>, <<" ">>}
ContentInputs == {<<"h", " ">>}
Documents == {[file_name |-> "f.pdf", file_id |-> "F1"]}
MenuData == {"show_sections", "logout", "help", "trash"}
SectionIds == 1..MaxSections
AdminData == {"admin_list_users", "admin_backup", "admin_trash"}

-----------------------------------------------------------------------------
(* Conversation states *)

LOGIN_USERNAME == 0
LOGIN_PASSWORD == 1
REG_USERNAME == 2
REG_PASSWORD == 3
ADD_TITLE == 100
ADD_CONTENT == 101
\* ConversationHandler.END; a conversation that ended has no state
END == -1
\* bot.py:25, the owner among UserIds
OWNER_ID == 1

\* Python None / a set value, as a sequence of length 0 / 1
None == <<>>
Some(v) == <<v>>

-----------------------------------------------------------------------------
(* str.strip() *)

IsSpace(c) == c = " "

RECURSIVE LStrip(_)
LStrip(s) == IF s # <<>> /\ IsSpace(Head(s)) THEN LStrip(Tail(s)) ELSE s

RECURSIVE RStrip(_)
RStrip(s) ==
    IF s # <<>> /\ IsSpace(s[Len(s)]) THEN RStrip(SubSeq(s, 1, Len(s) - 1)) ELSE s

strip(s) == RStrip(LStrip(s))

-----------------------------------------------------------------------------
(* bcrypt: the hash is a function of the password and of the salt, and the *)
(* salt is readable from the hash; checkpw rehashes with that salt.        *)

hashpw(password, salt) == [salt |-> salt, digest |-> <<salt, password>>]

checkpw(password, hashed) == hashpw(password, hashed.salt) = hashed

-----------------------------------------------------------------------------
(* Files *)

EmptyDoc == <<>>
Absent == [kind |-> "absent", doc |-> EmptyDoc]
Corrupt == [kind |-> "corrupt", doc |-> EmptyDoc]
Valid(d) == [kind |-> "valid", doc |-> d]

\* users[username] = record
Put(users, username, rec) ==
    [x \in (DOMAIN users) \cup {username} |-> IF x = username THEN rec ELSE users[x]]

\* (variant: json.load() is not guarded, a damaged file raises)
ReadRaises_unguarded(f) == f.kind # "valid"

\* bot.py atomic_read_json: open() or json.load() fails -> os.rename -> None.
\* When the file does not exist the rename inside the except block fails too
\* and the FileNotFoundError leaves the function.
ReadRaises(f) == f.kind = "absent"
ReadResult(f) == IF f.kind = "valid" THEN Some(f.doc) ELSE None
FileAfterRead(f) == IF f.kind = "corrupt" THEN Absent ELSE f
BakAfterRead(f, bak) == IF f.kind = "corrupt" THEN f ELSE bak

\* `atomic_read_json(USERS_FILE) or {}`
OrEmpty(r) == IF r = None \/ r[1] = EmptyDoc THEN EmptyDoc ELSE r[1]

\* modules/auth.py load_users: any failure gives {} and touches nothing
load_users(f) == IF f.kind = "valid" THEN f.doc ELSE EmptyDoc

-----------------------------------------------------------------------------
NoUserData == [register_username |-> None, login_username |-> None,
               section_title |-> None]
NoPending == [user |-> 0, name |-> None, password |-> None, old |-> Absent,
              new |-> Absent]
\* The last update handled: the handler that took it, the user, the callback
\* data of a button press taken by menu_callback or section_callback, and
\* what was answered: the reply, the inline buttons or section shown, the
\* usernames listed
EventShown(h, u, r, s) ==
    [handler |-> h, user |-> u, data |-> "", reply |-> r, shown |-> s,
     listed |-> {}]
Event(h, u, r) == EventShown(h, u, r, <<>>)

Init ==
    /\ usersFile = Valid(EmptyDoc)
    /\ tmpFile = Absent
    /\ bakFile = Absent
    /\ active_sessions = {}
    /\ user_sections = [u \in UserIds |-> <<>>]
    /\ register_conv = [u \in UserIds |-> END]
    /\ login_conv = [u \in UserIds |-> END]
    /\ add_section_conv = [u \in UserIds |-> END]
    /\ user_data = [u \in UserIds |-> NoUserData]
    /\ pc = "idle"
    /\ pending = NoPending
    /\ ev = Event("init", 0, "none")
    /\ registered = <<>>

\* Which conversation handler takes a text message of user u: the first one,
\* in the order of add_handler, that has a state for u (bot.py:385-387).
TextGoesToRegister(u) == register_conv[u] # END
TextGoesToLogin(u) == register_conv[u] = END /\ login_conv[u] # END
TextGoesToAddSection(u) ==
    register_conv[u] = END /\ login_conv[u] = END /\ add_section_conv[u] # END

FilesUnchanged == UNCHANGED <<usersFile, tmpFile, bakFile>>
WriteUnchanged == UNCHANGED <<pc, pending>>

\* A handler that raised: python-telegram-bot logs the exception and the
\* conversation keeps its state.
Raised(h, u) ==
    /\ ev' = Event(h, u, "Raised")
    /\ UNCHANGED <<active_sessions, user_sections, register_conv, login_conv,
                   add_section_conv, user_data, pc, pending, registered>>

-----------------------------------------------------------------------------
(* Registration (bot.py:112-138) *)

\* /register is an entry point of register_conv only: no login check, and it
\* leaves the other conversation handlers as they are.
register_start(u) ==
    /\ pc = "idle"
    /\ register_conv[u] = END
    /\ register_conv' = [register_conv EXCEPT ![u] = REG_USERNAME]
    /\ ev' = Event("register_start", u, "EnterUsername")
    /\ FilesUnchanged /\ WriteUnchanged
    /\ UNCHANGED <<active_sessions, user_sections, login_conv, add_section_conv,
                   user_data, registered>>

register_username(u, text) ==
    /\ pc = "idle"
    /\ register_conv[u] = REG_USERNAME
    /\ IF ReadRaises(usersFile)
       THEN /\ Raised("register_username", u)
            /\ FilesUnchanged
       ELSE LET username == strip(text)
                users == OrEmpty(ReadResult(usersFile))
            IN /\ usersFile' = FileAfterRead(usersFile)
               /\ bakFile' = BakAfterRead(usersFile, bakFile)
               /\ IF username \in DOMAIN users
                  THEN /\ ev' = Event("register_username", u, "UsernameExists")
                       /\ UNCHANGED <<register_conv, user_data>>
                  ELSE /\ user_data' = [user_data EXCEPT
                                          ![u].register_username = Some(username)]
                       /\ register_conv' = [register_conv EXCEPT ![u] = REG_PASSWORD]
                       /\ ev' = Event("register_username", u, "EnterPassword")
               /\ WriteUnchanged
               /\ UNCHANGED <<tmpFile, active_sessions, user_sections, login_conv,
                              add_section_conv, registered>>

\* (variant: the new user is written into an empty map, not into the map read)
RegisteredDoc_fresh(users, username, password, salt) ==
    Put(EmptyDoc, username, [password |-> hashpw(password, salt)])

\* bot.py:129-131: the document register_password writes.  The username is
\* not looked up again: users[username] is assigned whether or not it is there.
RegisteredDoc(users, username, password, salt) ==
    Put(users, username, [password |-> hashpw(password, salt)])

\* register_password up to and including open(tmp, "w") of atomic_write_json
register_password(u, text, salt) ==
    /\ pc = "idle"
    /\ register_conv[u] = REG_PASSWORD
    /\ IF ReadRaises(usersFile)
       THEN /\ Raised("register_password", u)
            /\ FilesUnchanged
       ELSE LET password == strip(text)
                username == user_data[u].register_username[1]
                users == OrEmpty(ReadResult(usersFile))
                after == FileAfterRead(usersFile)
            IN /\ usersFile' = after
               /\ bakFile' = BakAfterRead(usersFile, bakFile)
               /\ tmpFile' = Corrupt
               /\ pc' = "tmp_open"
               /\ pending' = [user |-> u, name |-> Some(username),
                              password |-> Some(password), old |-> after,
                              new |-> Valid(RegisteredDoc(users, username, password, salt))]
               /\ UNCHANGED <<active_sessions, user_sections, register_conv,
                              login_conv, add_section_conv, user_data, ev, registered>>

\* atomic_write_json, json.dump into the temporary file and close (bot.py:65-66)
atomic_write_json_dump ==
    /\ pc = "tmp_open"
    /\ tmpFile' = pending.new
    /\ pc' = "tmp_written"
    /\ UNCHANGED <<usersFile, bakFile, active_sessions, user_sections, register_conv,
                   login_conv, add_section_conv, user_data, pending, ev, registered>>

\* atomic_write_json, os.replace (bot.py:67), then the rest of register_password
atomic_write_json_replace ==
    /\ pc = "tmp_written"
    /\ usersFile' = tmpFile
    /\ tmpFile' = Absent
    /\ register_conv' = [register_conv EXCEPT ![pending.user] = END]
    /\ ev' = Event("register_password", pending.user, "Registered")
    /\ registered' = Put(registered, pending.name[1], pending.password[1])
    /\ pc' = "idle"
    /\ pending' = NoPending
    /\ UNCHANGED <<bakFile, active_sessions, user_sections, login_conv,
                   add_section_conv, user_data>>

\* /cancel is the fallback of register_conv; user_data is not touched
register_cancel(u) ==
    /\ pc = "idle"
    /\ register_conv[u] # END
    /\ register_conv' = [register_conv EXCEPT ![u] = END]
    /\ ev' = Event("register_cancel", u, "Cancelled")
    /\ FilesUnchanged /\ WriteUnchanged
    /\ UNCHANGED <<active_sessions, user_sections, login_conv, add_section_conv,
                   user_data, registered>>

-----------------------------------------------------------------------------
(* Login and logout (bot.py:141-177) *)

login_start(u) ==
    /\ pc = "idle"
    /\ login_conv[u] = END
    /\ IF u \in active_sessions
       THEN /\ ev' = Event("login_start", u, "AlreadyLoggedIn")
            /\ UNCHANGED login_conv
       ELSE /\ ev' = Event("login_start", u, "EnterUsername")
            /\ login_conv' = [login_conv EXCEPT ![u] = LOGIN_USERNAME]
    /\ FilesUnchanged /\ WriteUnchanged
    /\ UNCHANGED <<active_sessions, user_sections, register_conv, add_section_conv,
                   user_data, registered>>

login_username(u, text) ==
    /\ pc = "idle"
    /\ TextGoesToLogin(u)
    /\ login_conv[u] = LOGIN_USERNAME
    /\ user_data' = [user_data EXCEPT ![u].login_username = Some(strip(text))]
    /\ login_conv' = [login_conv EXCEPT ![u] = LOGIN_PASSWORD]
    /\ ev' = Event("login_username", u, "EnterPassword")
    /\ FilesUnchanged /\ WriteUnchanged
    /\ UNCHANGED <<active_sessions, user_sections, register_conv, add_section_conv,
                   registered>>

\* (variant: the password is not compared)
LoginOutcome_unchecked(users, username, password) ==
    IF username \notin DOMAIN users THEN "UserNotFound" ELSE "LoggedIn"

\* bot.py:158-168: what login_password answers for the map it read
LoginOutcome(users, username, password) ==
    IF username \notin DOMAIN users THEN "UserNotFound"
    ELSE IF checkpw(password, users[username].password) THEN "LoggedIn"
    ELSE "IncorrectPassword"

login_password(u, text) ==
    /\ pc = "idle"
    /\ TextGoesToLogin(u)
    /\ login_conv[u] = LOGIN_PASSWORD
    /\ IF ReadRaises(usersFile)
       THEN /\ Raised("login_password", u)
            /\ FilesUnchanged
       ELSE LET username == user_data[u].login_username[1]
                password == strip(text)
                users == OrEmpty(ReadResult(usersFile))
                outcome == LoginOutcome(users, username, password)
            IN /\ usersFile' = FileAfterRead(usersFile)
               /\ bakFile' = BakAfterRead(usersFile, bakFile)
               /\ active_sessions' = IF outcome = "LoggedIn"
                                     THEN active_sessions \cup {u}
                                     ELSE active_sessions
               /\ login_conv' = [login_conv EXCEPT ![u] = END]
               /\ ev' = Event("login_password", u, outcome)
               /\ WriteUnchanged
               /\ UNCHANGED <<tmpFile, user_sections, register_conv,
                              add_section_conv, user_data, registered>>

\* /logout (bot.py:171-177); it ends no conversation
logout(u) ==
    /\ pc = "idle"
    /\ IF u \in active_sessions
       THEN /\ active_sessions' = active_sessions \ {u}
            /\ ev' = Event("logout", u, "LoggedOut")
       ELSE /\ UNCHANGED active_sessions
            /\ ev' = Event("logout", u, "NotLoggedIn")
    /\ FilesUnchanged /\ WriteUnchanged
    /\ UNCHANGED <<user_sections, register_conv, login_conv, add_section_conv,
                   user_data, registered>>

-----------------------------------------------------------------------------
(* Decorator and menu (bot.py:70-76, 205-233, 265-284) *)

\* requires_login answers through update.message.  A callback query has no
\* update.message, so for a button press the rejection itself raises
\* AttributeError; for a text message it replies and returns None.
RequiresLoginReply(isCallback) == IF isCallback THEN "Raised" ELSE "PleaseLogin"

\* bot.py:72
LoginRequiredFails(u) == u \notin active_sessions

\* (variant: one list for all owners)
RECURSIVE AllSections(_)
AllSections(U) ==
    IF U = {} THEN <<>>
    ELSE LET u == CHOOSE x \in U : \A y \in U : x <= y
         IN user_sections[u] \o AllSections(U \ {u})

SectionsOf_shared(u) == AllSections(UserIds)

\* bot.py:269, 297: user_sections.get(user_id, [])
SectionsOf(u) == user_sections[u]

\* bot.py:274-283: one button per section, its title and "section_<id>"
SectionButtons(sections) ==
    [i \in 1..Len(sections) |->
        [text |-> sections[i].title, callback_data |-> <<"section_", sections[i].id>>]]

\* show_sections, as called from menu_callback
ShowSectionsReply(u) == IF SectionsOf(u) = <<>> THEN "NoSections" ELSE "YourSections"

\* The add_section button while add_section_conv has no state for u: the entry
\* point of add_section_conv (bot.py:373), menu_callback behind requires_login.
menu_callback_entry(u) ==
    /\ pc = "idle"
    /\ add_section_conv[u] = END
    /\ IF LoginRequiredFails(u)
       THEN /\ ev' = Event("menu_callback", u, RequiresLoginReply(TRUE))
            /\ UNCHANGED add_section_conv
       ELSE /\ ev' = Event("menu_callback", u, "SendTitle")
            /\ add_section_conv' = [add_section_conv EXCEPT ![u] = ADD_TITLE]
    /\ FilesUnchanged /\ WriteUnchanged
    /\ UNCHANGED <<active_sessions, user_sections, register_conv, login_conv,
                   user_data, registered>>

\* Any other button, through the catch-all CallbackQueryHandler (bot.py:393).
\* What the handler returns is ignored outside a conversation.
menu_callback(u, data) ==
    /\ pc = "idle"
    \* add_section gets here only when add_section_conv does not take it
    /\ data = "add_section" => add_section_conv[u] # END
    /\ IF LoginRequiredFails(u)
       THEN /\ ev' = Event("menu_callback", u, RequiresLoginReply(TRUE))
            /\ UNCHANGED active_sessions
       ELSE /\ ev' = [EventShown("menu_callback", u,
                       CASE data = "show_sections" -> ShowSectionsReply(u)
                         [] data = "logout" -> "LoggedOut"
                         [] data = "help" -> "UseHelp"
                         [] OTHER -> "UnknownOption",
                       IF data = "show_sections"
                       THEN SectionButtons(SectionsOf(u))
                       ELSE <<>>) EXCEPT !.data = data]
            /\ active_sessions' = IF data = "logout"
                                  THEN active_sessions \ {u}
                                  ELSE active_sessions
    /\ FilesUnchanged /\ WriteUnchanged
    /\ UNCHANGED <<user_sections, register_conv, login_conv, add_section_conv,
                   user_data, registered>>

-----------------------------------------------------------------------------
(* Section detail (bot.py:287-322) and the order of the callback handlers *)

\* bot.py:290-309, for the data "section_<sec_id>"
section_callback(u, sec_id) ==
    /\ pc = "idle"
    /\ IF LoginRequiredFails(u)
       THEN ev' = Event("section_callback", u, RequiresLoginReply(TRUE))
       ELSE LET sections == SectionsOf(u)
                found == {i \in 1..Len(sections) : sections[i].id = sec_id}
            IN IF found = {}
               THEN ev' = [Event("section_callback", u, "SectionNotFound")
                              EXCEPT !.data = "section_<id>"]
               ELSE LET first == CHOOSE i \in found : \A j \in found : i <= j
                    IN ev' = [EventShown("section_callback", u, "SectionDetail",
                                         <<sections[first]>>)
                                 EXCEPT !.data = "section_<id>"]
    /\ FilesUnchanged /\ WriteUnchanged
    /\ UNCHANGED <<active_sessions, user_sections, register_conv, login_conv,
                   add_section_conv, user_data, registered>>

\* bot.py:392-394: the CallbackQueryHandlers outside conversations, in the
\* order of add_handler.  A pattern is matched at the start of the data, and
\* no pattern matches every data.
CallbackHandlers ==
    << [callback |-> "admin_callback", pattern |-> "admin_"],
       [callback |-> "menu_callback", pattern |-> ""],
       [callback |-> "section_callback", pattern |-> "section_"] >>

Matches(pattern, prefix) == pattern = "" \/ pattern = prefix

\* All handlers are in one group: the first that matches gets the update
FirstMatch(prefix) ==
    LET hits == {i \in 1..Len(CallbackHandlers) :
                    Matches(CallbackHandlers[i].pattern, prefix)}
    IN CallbackHandlers[CHOOSE i \in hits : \A j \in hits : i <= j].callback

\* A section button of the list is pressed: callback data "section_<sec_id>".
\* The entry point of add_section_conv (pattern ^add_section$) does not match.
section_button(u, sec_id) ==
    IF FirstMatch("section_") = "section_callback"
    THEN section_callback(u, sec_id)
    ELSE menu_callback(u, "section_<id>")

-----------------------------------------------------------------------------
(* Admin panel (bot.py:78-84, 325-349) *)

\* bot.py:80
OwnerOnlyFails(u) == u # OWNER_ID

\* owner_only as applied to a handler: whether the wrapped handler is skipped
OwnerOnlyRejects(u) == OwnerOnlyFails(u)

\* owner_only answers through update.message, like requires_login: for a
\* button press the rejection raises AttributeError.
OwnerOnlyReply(isCallback) == IF isCallback THEN "Raised" ELSE "Unauthorized"

\* /admin (bot.py:325-331, 390)
admin_panel(u) ==
    /\ pc = "idle"
    /\ ev' = Event("admin_panel", u,
                   IF OwnerOnlyRejects(u) THEN OwnerOnlyReply(FALSE) ELSE "AdminPanel")
    /\ FilesUnchanged /\ WriteUnchanged
    /\ UNCHANGED <<active_sessions, user_sections, register_conv, login_conv,
                   add_section_conv, user_data, registered>>

\* A button with data "admin_...": the first CallbackQueryHandler (bot.py:392)
admin_callback(u, data) ==
    /\ pc = "idle"
    /\ FirstMatch("admin_") = "admin_callback"
    /\ IF OwnerOnlyRejects(u)
       THEN /\ ev' = Event("admin_callback", u, OwnerOnlyReply(TRUE))
            /\ FilesUnchanged
       ELSE IF data = "admin_list_users"
       THEN IF ReadRaises(usersFile)
            THEN /\ ev' = Event("admin_callback", u, "Raised")
                 /\ FilesUnchanged
            ELSE /\ usersFile' = FileAfterRead(usersFile)
                 /\ bakFile' = BakAfterRead(usersFile, bakFile)
                 /\ ev' = [Event("admin_callback", u, "RegisteredUsers") EXCEPT
                              !.listed = DOMAIN OrEmpty(ReadResult(usersFile))]
                 /\ UNCHANGED tmpFile
       ELSE /\ ev' = Event("admin_callback", u,
                           IF data = "admin_backup" THEN "BackupNotImplemented"
                           ELSE "UnknownAdminCommand")
            /\ FilesUnchanged
    /\ WriteUnchanged
    /\ UNCHANGED <<active_sessions, user_sections, register_conv, login_conv,
                   add_section_conv, user_data, registered>>

-----------------------------------------------------------------------------
(* Add section (bot.py:236-262) *)

add_section_title(u, text) ==
    /\ pc = "idle"
    /\ TextGoesToAddSection(u)
    /\ add_section_conv[u] = ADD_TITLE
    /\ IF LoginRequiredFails(u)
       THEN \* the wrapper returns None: the conversation keeps its state
            /\ ev' = Event("add_section_title", u, RequiresLoginReply(FALSE))
            /\ UNCHANGED <<user_data, add_section_conv>>
       ELSE /\ user_data' = [user_data EXCEPT ![u].section_title = Some(strip(text))]
            /\ add_section_conv' = [add_section_conv EXCEPT ![u] = ADD_CONTENT]
            /\ ev' = Event("add_section_title", u, "SendContent")
    /\ FilesUnchanged /\ WriteUnchanged
    /\ UNCHANGED <<active_sessions, user_sections, register_conv, login_conv,
                   registered>>

\* bot.py:246-250
TextContent(text) == strip(text)
DocumentContent(d) == <<"[PDF: ", d.file_name, "](https://t.me/file/", d.file_id, ")">>

\* (variant: one id counter for all owners)
RECURSIVE TotalSections(_)
TotalSections(U) ==
    IF U = {} THEN 0
    ELSE LET u == CHOOSE x \in U : TRUE
         IN Len(user_sections[u]) + TotalSections(U \ {u})

NewId_shared(sections) == TotalSections(UserIds) + 1

\* bot.py:253
NewId(sections) == Len(sections) + 1

\* (variant: title and content change places)
AppendSection_swapped(sections, title, content) ==
    Append(sections, [id |-> NewId(sections), title |-> content, text |-> title])

\* bot.py:252-259
AppendSection(sections, title, content) ==
    Append(sections, [id |-> NewId(sections), title |-> title, text |-> content])

\* add_section_content is registered without requires_login (bot.py:242)
AddSectionContentAllowed(u) == TRUE

add_section_content(u, content) ==
    /\ pc = "idle"
    /\ add_section_conv[u] = ADD_CONTENT
    /\ Len(user_sections[u]) < MaxSections
    /\ IF ~AddSectionContentAllowed(u)
       THEN /\ ev' = Event("add_section_content", u, RequiresLoginReply(FALSE))
            /\ UNCHANGED <<user_sections, add_section_conv>>
       ELSE /\ user_sections' = [user_sections EXCEPT ![u] =
                    AppendSection(@, user_data[u].section_title[1], content)]
            /\ add_section_conv' = [add_section_conv EXCEPT ![u] = END]
            /\ ev' = Event("add_section_content", u, "Added")
    /\ FilesUnchanged /\ WriteUnchanged
    /\ UNCHANGED <<active_sessions, register_conv, login_conv, user_data, registered>>

\* A text answer reaches add_section_conv only when the two conversation
\* handlers registered before it have no state for u.
add_section_content_text(u, text) ==
    /\ TextGoesToAddSection(u)
    /\ add_section_content(u, TextContent(text))

\* A document passes no TEXT filter, so it reaches add_section_conv directly.
add_section_content_document(u, d) ==
    add_section_content(u, DocumentContent(d))

-----------------------------------------------------------------------------
(* modules/auth.py: the credential store as a library *)

AuthUsernames == {strip(t) : t \in TwoUsernameInputs}
AuthPasswords == {strip(t) : t \in PasswordInputs}

\* register_user up to and including open(USERS_FILE, "w") of save_users,
\* which truncates the file before anything is written
register_user(username, password, salt) ==
    /\ pc = "idle"
    /\ LET users == load_users(usersFile)
       IN IF username \in DOMAIN users
          THEN /\ ev' = Event("register_user", 0, "False")
               /\ UNCHANGED <<usersFile, pc, pending>>
          ELSE /\ usersFile' = Corrupt
               /\ pc' = "save_open"
               /\ pending' = [user |-> 0, name |-> Some(username),
                              password |-> Some(password), old |-> usersFile,
                              new |-> Valid(Put(users, username,
                                        [password |-> hashpw(password, salt),
                                         settings |-> <<>>]))]
               /\ UNCHANGED ev
    /\ UNCHANGED <<tmpFile, bakFile, active_sessions, user_sections, register_conv,
                   login_conv, add_section_conv, user_data, registered>>

\* save_users, json.dump and close (auth.py:23), then register_user returns
save_users_dump ==
    /\ pc = "save_open"
    /\ usersFile' = pending.new
    /\ ev' = Event("register_user", 0, "True")
    /\ registered' = Put(registered, pending.name[1], pending.password[1])
    /\ pc' = "idle"
    /\ pending' = NoPending
    /\ UNCHANGED <<tmpFile, bakFile, active_sessions, user_sections, register_conv,
                   login_conv, add_section_conv, user_data>>

authenticate_user(username, password) ==
    /\ pc = "idle"
    /\ LET users == load_users(usersFile)
       IN ev' = Event("authenticate_user", 0,
                      IF username \in DOMAIN users
                         /\ checkpw(password, users[username].password)
                      THEN "True" ELSE "False")
    /\ FilesUnchanged /\ WriteUnchanged
    /\ UNCHANGED <<active_sessions, user_sections, register_conv, login_conv,
                   add_section_conv, user_data, registered>>

-----------------------------------------------------------------------------
(* Environment *)

\* The process is killed and started again: module-level state is rebuilt
\* (bot.py:35-42), files stay as they are.  When users.json does not exist,
\* write_text("{}") opens it for writing, which creates it empty.
Crash ==
    /\ usersFile' = IF usersFile.kind = "absent" THEN Corrupt ELSE usersFile
    /\ active_sessions' = {}
    /\ user_sections' = [u \in UserIds |-> <<>>]
    /\ register_conv' = [u \in UserIds |-> END]
    /\ login_conv' = [u \in UserIds |-> END]
    /\ add_section_conv' = [u \in UserIds |-> END]
    /\ user_data' = [u \in UserIds |-> NoUserData]
    /\ pc' = IF usersFile.kind = "absent" THEN "init_open" ELSE "idle"
    /\ pending' = IF usersFile.kind = "absent"
                  THEN [NoPending EXCEPT !.new = Valid(EmptyDoc)]
                  ELSE NoPending
    /\ ev' = Event("restart", 0, "none")
    /\ UNCHANGED <<tmpFile, bakFile, registered>>

\* module start, the rest of USERS_FILE.write_text("{}") (bot.py:39)
module_init_write ==
    /\ pc = "init_open"
    /\ usersFile' = pending.new
    /\ pc' = "idle"
    /\ pending' = NoPending
    /\ UNCHANGED <<tmpFile, bakFile, active_sessions, user_sections, register_conv,
                   login_conv, add_section_conv, user_data, ev, registered>>

\* users.json is damaged from outside (truncated, edited by hand)
CorruptFile ==
    /\ pc = "idle"
    /\ usersFile.kind = "valid"
    /\ usersFile' = Corrupt
    /\ UNCHANGED <<tmpFile, bakFile, active_sessions, user_sections, register_conv,
                   login_conv, add_section_conv, user_data, pc, pending, ev, registered>>

-----------------------------------------------------------------------------
(* Specifications.  The whole bot for two users with every input is far    *)
(* beyond what can be enumerated, so each specification takes the handlers *)
(* of one part of the program, for a set of users and an input alphabet.   *)

CredentialSteps(U, UN, PW, SA) ==
    \/ \E u \in U : register_start(u)
    \/ \E u \in U, t \in UN : register_username(u, t)
    \/ \E u \in U, t \in PW, s \in SA : register_password(u, t, s)
    \/ atomic_write_json_dump
    \/ atomic_write_json_replace
    \/ \E u \in U : register_cancel(u)
    \/ \E u \in U : login_start(u)
    \/ \E u \in U, t \in UN : login_username(u, t)
    \/ \E u \in U, t \in PW : login_password(u, t)
    \/ \E u \in U : logout(u)

SectionSteps(U, TI, CI) ==
    \/ \E u \in U : menu_callback_entry(u)
    \/ \E u \in U, d \in MenuData \cup {"add_section"} : menu_callback(u, d)
    \/ \E u \in U, t \in TI : add_section_title(u, t)
    \/ \E u \in U, t \in CI : add_section_content_text(u, t)
    \/ \E u \in U, i \in SectionIds : section_button(u, i)

AdminSteps(U) ==
    \/ \E u \in U : admin_panel(u)
    \/ \E u \in U, d \in AdminData : admin_callback(u, d)

DocumentSteps(U, DI) ==
    \E u \in U, d \in DI : add_section_content_document(u, d)

LibrarySteps(SA) ==
    \/ \E n \in AuthUsernames, p \in AuthPasswords, s \in SA : register_user(n, p, s)
    \/ save_users_dump
    \/ \E n \in AuthUsernames, p \in AuthPasswords : authenticate_user(n, p)

FaultSteps ==
    \/ Crash
    \/ module_init_write
    \/ CorruptFile

\* One user, every handler of the bot but the admin panel, with crashes and
\* file damage
Next ==
    \/ CredentialSteps({1}, UsernameInputs, PasswordInputs, Salts)
    \/ SectionSteps({1}, TitleInputs, ContentInputs)
    \/ DocumentSteps({1}, Documents)
    \/ FaultSteps

Spec == Init /\ [][Next]_vars

\* Two users, the register and login dialogs, with crashes and file damage
NextTwo ==
    \/ CredentialSteps(UserIds, UsernameInputs, PasswordInputs, Salts)
    \/ FaultSteps

SpecTwo == Init /\ [][NextTwo]_vars

\* The library form of the credential store next to the register and login
\* dialogs of one user, with crashes and file damage
NextLib ==
    \/ LibrarySteps({1})
    \/ CredentialSteps({1}, UsernameInputs, PasswordInputs, {1})
    \/ FaultSteps

SpecLib == Init /\ [][NextLib]_vars

\* The state after user 1 has registered "a" and both users have logged in
\* with it (reached under SpecTwo)
BothLoggedIn ==
    /\ usersFile = Valid(RegisteredDoc(EmptyDoc, <<"a">>, <<"p">>, 1))
    /\ tmpFile = Absent
    /\ bakFile = Absent
    /\ active_sessions = UserIds
    /\ user_sections = [u \in UserIds |-> <<>>]
    /\ register_conv = [u \in UserIds |-> END]
    /\ login_conv = [u \in UserIds |-> END]
    /\ add_section_conv = [u \in UserIds |-> END]
    /\ user_data = [u \in UserIds |->
                      [register_username |-> IF u = 1 THEN Some(<<"a">>) ELSE None,
                       login_username |-> Some(<<"a">>),
                       section_title |-> None]]
    /\ pc = "idle"
    /\ pending = NoPending
    /\ ev = Event("login_password", 2, "LoggedIn")
    /\ registered = Put(<<>>, <<"a">>, <<"p">>)

\* Two logged-in users, the menu and the add-section dialog
NextSect ==
    \/ SectionSteps(UserIds, {<<" ", "N">>}, ContentInputs)
    \/ DocumentSteps(UserIds, Documents)
    \/ \E u \in UserIds : logout(u)

SpecSect == BothLoggedIn /\ [][NextSect]_vars

\* One user and two usernames, the register and login dialogs, with crashes
\* and file damage
NextNames ==
    \/ CredentialSteps({1}, TwoUsernameInputs, PasswordInputs, {1})
    \/ FaultSteps

SpecNames == Init /\ [][NextNames]_vars

\* Two users and two usernames, the register and login dialogs in every
\* interleaving of the handlers, with crashes
NextPair ==
    \/ CredentialSteps(UserIds, TwoUsernameInputs, {<<"p">>}, {1})
    \/ Crash

SpecPair == Init /\ [][NextPair]_vars

\* Two users, logged in at first: the menu and the add-section dialog with
\* text content for both, and for user 1 also the register and login dialogs
\* with a second username and /logout
NextIso ==
    \/ SectionSteps(UserIds, {<<" ", "N">>}, ContentInputs)
    \/ CredentialSteps({1}, {<<"b">>}, {<<"p">>}, {1})

SpecIso == BothLoggedIn /\ [][NextIso]_vars

\* The admin panel used by the owner and by another user, next to the
\* register and login dialogs of both, with crashes and file damage
NextAdmin ==
    \/ AdminSteps(UserIds)
    \/ CredentialSteps(UserIds, {<<"a">>}, {<<"p">>}, {1})
    \/ FaultSteps

SpecAdmin == Init /\ [][NextAdmin]_vars

-----------------------------------------------------------------------------
(* Properties *)

\* The credential store as a map: a file that cannot be read counts as empty
StoredUsers == IF usersFile.kind = "valid" THEN usersFile.doc ELSE EmptyDoc

\* C1: once a username is in the credential store, a later registration
\* commit for it is answered "username exists" and leaves its stored password
\* hash as it was.
C1_CommitRejectsExisting ==
    [][(atomic_write_json_replace /\ pending.name[1] \in DOMAIN StoredUsers)
          => /\ ev'.reply = "UsernameExists"
             /\ usersFile' = usersFile]_vars

\* C2: a content answer of the addSection flow from a user who is not in
\* active_sessions creates no section.
C2_ContentRechecksSession ==
    [][\A u \in UserIds, t \in ContentInputs :
          (LoginRequiredFails(u) /\ add_section_content_text(u, t))
              => user_sections' = user_sections]_vars

\* C3: the add_section button pressed by a user who is not in active_sessions
\* is answered with the login prompt and leaves no conversation state, no
\* section and the same session set.
C3_EntryRejectedUnauthenticated ==
    [][\A u \in UserIds :
          (LoginRequiredFails(u) /\ menu_callback_entry(u))
              => /\ ev'.reply = "PleaseLogin"
                 /\ add_section_conv'[u] = END
                 /\ UNCHANGED <<user_sections, active_sessions>>]_vars

\* C5: a login commit that finds users.json corrupted does not raise; it
\* answers "user not found", does not mark the user active, and leaves the
\* corrupted content under users.corrupt.bak.
C5_CorruptLoginFailsSafe ==
    [][\A u \in UserIds, t \in PasswordInputs :
          (usersFile.kind = "corrupt" /\ login_password(u, t))
              => /\ ev'.reply = "UserNotFound"
                 /\ u \notin active_sessions'
                 /\ login_conv'[u] = END
                 /\ bakFile' = usersFile]_vars

C5_Witness ==
    /\ ev.handler = "login_password"
    /\ ev.reply = "UserNotFound"
    /\ ev.user \in UserIds
    /\ user_data[ev.user].login_username # None
    /\ user_data[ev.user].login_username[1] \in DOMAIN registered
    /\ bakFile.kind = "corrupt"
    /\ usersFile.kind = "absent"
    /\ ev.user \notin active_sessions

\* C6: whenever a handler may run, a read of users.json completes without
\* raising (the file is valid, or corrupted and about to be moved aside, but
\* never missing).
C6_ReadNeverRaises == pc = "idle" => ~ReadRaises(usersFile)

\* C7: a user has at most one conversation in progress, over all flows.
ActiveFlows(u) ==
    {f \in {"register", "login", "addSection"} :
        \/ f = "register" /\ register_conv[u] # END
        \/ f = "login" /\ login_conv[u] # END
        \/ f = "addSection" /\ add_section_conv[u] # END}

C7_OneConversationPerUser == \A u \in UserIds : Cardinality(ActiveFlows(u)) <= 1

\* C8: an answer that is valid moves its flow one step forward (the last step
\* to the commit and then to no state), an invalid one leaves the step as it
\* is, and no step is skipped or taken backwards.
ForwardOnly(old, new, first, second) ==
    \/ new = old
    \/ new = END
    \/ old = END /\ new = first
    \/ old = first /\ new = second

C8_StepDiscipline ==
    [][\A u \in UserIds :
          /\ \A t \in UsernameInputs :
                register_username(u, t) =>
                    register_conv'[u] = IF strip(t) \in DOMAIN StoredUsers
                                        THEN REG_USERNAME ELSE REG_PASSWORD
          /\ \A t \in PasswordInputs, s \in Salts :
                register_password(u, t, s) => pc' = "tmp_open"
          /\ (atomic_write_json_replace /\ pending.user = u) => register_conv'[u] = END
          /\ \A t \in UsernameInputs :
                login_username(u, t) => login_conv'[u] = LOGIN_PASSWORD
          /\ \A t \in PasswordInputs :
                login_password(u, t) => login_conv'[u] = END
          /\ \A t \in TitleInputs :
                (add_section_title(u, t) /\ ~LoginRequiredFails(u)) =>
                    add_section_conv'[u] = IF strip(t) = <<>>
                                           THEN ADD_TITLE ELSE ADD_CONTENT
          /\ \A t \in ContentInputs :
                add_section_content_text(u, t) => add_section_conv'[u] = END
          /\ ForwardOnly(register_conv[u], register_conv'[u], REG_USERNAME, REG_PASSWORD)
          /\ ForwardOnly(login_conv[u], login_conv'[u], LOGIN_USERNAME, LOGIN_PASSWORD)
          /\ ForwardOnly(add_section_conv[u], add_section_conv'[u], ADD_TITLE, ADD_CONTENT)
      ]_vars

C4_WritesAreAtomic ==
    pc # "idle" => (usersFile = pending.old \/ usersFile = pending.new)

\* C9: the sections of each owner carry the ids 1..n in the order they were
\* created, whatever the other owners have.
C9_DenseIdsPerOwner ==
    \A u \in UserIds :
        \A i \in 1..Len(user_sections[u]) : user_sections[u][i].id = i

C9_Witness ==
    /\ Len(user_sections[1]) = 2
    /\ Len(user_sections[2]) = 2
    /\ ev = Event("add_section_content", 2, "Added")
    /\ user_sections[1][2].id = 2
    /\ user_sections[2][1].id = 1

\* The username a session was opened for: login_password takes it from
\* user_data (bot.py:156), and a logged-in user gets past login_start only to
\* "already logged in" (bot.py:144-146), so it stays there for the session.
SessionUsername(u) == user_data[u].login_username[1]

\* C11: every active session belongs to a username that is a key of the
\* persisted credential map, also once a credential read has moved a
\* corrupted file aside and left the store empty.
C11_SessionsHaveStoredUser ==
    usersFile.kind # "corrupt" =>
        \A u \in active_sessions : SessionUsername(u) \in DOMAIN StoredUsers

\* C12: the registered usernames only grow: whenever users.json holds a map
\* the program has written, every username of a committed registration is a
\* key of it.
C12_UsernamesOnlyGrow ==
    (pc = "idle" /\ usersFile.kind = "valid") =>
        DOMAIN registered \subseteq DOMAIN usersFile.doc

\* The login of u with this password is one the store refuses: the username
\* is unknown to it or the password is not the stored one
LoginIsRefused(u, text) ==
    LET username == user_data[u].login_username[1]
    IN \/ username \notin DOMAIN StoredUsers
       \/ ~checkpw(strip(text), StoredUsers[username].password)

\* C13: a login commit that fails, for an unknown username or a wrong
\* password, ends the login flow: the user has no login conversation state
\* afterwards (is not left at the password step) and the active sessions are
\* as they were.
C13_FailedLoginEndsFlow ==
    [][\A u \in UserIds, t \in PasswordInputs :
          (login_password(u, t) /\ LoginIsRefused(u, t))
              => /\ login_conv'[u] = END
                 /\ active_sessions' = active_sessions]_vars

\* The user whose update a step handles: a handler records it in ev, a write
\* in progress in pending; 0 for a restart
StepUser ==
    IF pc' # "idle" THEN pending'.user
    ELSE IF pc # "idle" THEN pending.user
    ELSE ev'.user

\* What belongs to user b: the section list, the session, the conversations
StateOf(b) ==
    <<user_sections[b], b \in active_sessions,
      register_conv[b], login_conv[b], add_section_conv[b]>>

Range(seq) == {seq[i] : i \in 1..Len(seq)}

\* C14: sections are isolated per owner: a step handling an update of user A
\* leaves the section list, the session membership and the conversation
\* state of every other user as they were, and a list or detail request of A
\* shows sections of A's own list only.
C14_IsolatedPerOwner ==
    [][\A a \in UserIds :
          /\ StepUser = a => \A b \in UserIds \ {a} : StateOf(b)' = StateOf(b)
          /\ (menu_callback(a, "show_sections") /\ a \in active_sessions)
                => ev'.shown = SectionButtons(user_sections[a])
          /\ \A i \in SectionIds : section_button(a, i)
                => Range(ev'.shown) \subseteq Range(user_sections[a])]_vars

\* User 1 is shown the one section of its list while user 2 has sections too
C14_Witness ==
    /\ ev.handler = "menu_callback" /\ ev.user = 1 /\ ev.reply = "YourSections"
    /\ Len(user_sections[1]) = 1
    /\ Len(user_sections[2]) = MaxSections
    /\ ev.shown = SectionButtons(user_sections[1])

\* C15: a privileged intent (the admin panel, list users, backup) of a user
\* who is not the owner is answered "Unauthorized", lists no username and
\* changes no state.
C15_NonOwnerUnauthorized ==
    [][\A u \in UserIds \ {OWNER_ID} :
          (admin_panel(u) \/ \E d \in AdminData : admin_callback(u, d))
              => /\ ev'.reply = "Unauthorized"
                 /\ ev'.listed = {}
                 /\ UNCHANGED <<usersFile, tmpFile, bakFile, active_sessions,
                                user_sections, register_conv, login_conv,
                                add_section_conv, user_data>>]_vars

\* C16: a title that is empty is refused at the title step: the flow stays at
\* the title step and nothing is written to the user's scratch, and no
\* section with an empty title is ever created.
C16_EmptyTitleRejected ==
    [][/\ \A u \in UserIds, t \in TitleInputs :
             (add_section_title(u, t) /\ u \in active_sessions /\ strip(t) = <<>>)
                 => /\ add_section_conv'[u] = ADD_TITLE
                    /\ user_data'[u] = user_data[u]
       /\ \A u \in UserIds : \A i \in 1..Len(user_sections'[u]) :
             user_sections'[u][i].title # <<>>]_vars

\* The button show_sections makes for a section
ButtonOf(section) ==
    [text |-> section.title, callback_data |-> <<"section_", section.id>>]

\* C17: for a logged-in user the add-section dialog given a title T and then
\* a text C appends exactly one section, with title T and content C (both as
\* stripped by the dialog) and the next id, to the user's list; the title
\* is kept while the dialog waits for the content; and the list shown next
\* has a button for each section of the user, so for the first section of a
\* fresh user exactly the one button of section 1.
C17_AddSectionCommits ==
    [][\A u \in UserIds :
          /\ \A t \in TitleInputs :
                (add_section_title(u, t) /\ u \in active_sessions)
                    => /\ user_data'[u].section_title = Some(strip(t))
                       /\ add_section_conv'[u] = ADD_CONTENT
                       /\ user_sections'[u] = user_sections[u]
          /\ (add_section_conv[u] = ADD_CONTENT /\ add_section_conv'[u] = ADD_CONTENT)
                => user_data'[u].section_title = user_data[u].section_title
          /\ \A c \in ContentInputs :
                add_section_content_text(u, c)
                    => /\ user_sections'[u] =
                             Append(user_sections[u],
                                    [id |-> Len(user_sections[u]) + 1,
                                     title |-> user_data[u].section_title[1],
                                     text |-> strip(c)])
                       /\ add_section_conv'[u] = END
          /\ (menu_callback(u, "show_sections") /\ u \in active_sessions)
                => /\ Len(ev'.shown) = Len(user_sections[u])
                   /\ \A i \in 1..Len(user_sections[u]) :
                         ev'.shown[i] = ButtonOf(user_sections[u][i])]_vars

\* The first section of a user, "N" with content "h", and the list shown
\* after it: the one button of section 1
C17_Witness ==
    /\ user_sections[1] = <<[id |-> 1, title |-> <<"N">>, text |-> <<"h">>]>>
    /\ 1 \in active_sessions
    /\ ev.handler = "menu_callback" /\ ev.user = 1 /\ ev.reply = "YourSections"
    /\ ev.shown = <<[text |-> <<"N">>, callback_data |-> <<"section_", 1>>]>>

\* C18: no registration is lost to another one: when a register commit
\* returns, the persisted map has the keys it had plus the new username, and
\* so every username whose commit has returned, by whichever user, is in it.
C18_NoLostUpdate ==
    [][atomic_write_json_replace
          => /\ DOMAIN StoredUsers' = DOMAIN StoredUsers \cup {pending.name[1]}
             /\ DOMAIN registered' \subseteq DOMAIN StoredUsers']_vars

\* User 1 has registered "a" and user 2 "b", the second commit has just
\* returned, and both are in the store
C18_Witness ==
    /\ user_data[1].register_username = Some(<<"a">>)
    /\ user_data[2].register_username = Some(<<"b">>)
    /\ register_conv[1] = END
    /\ ev = Event("register_password", 2, "Registered")
    /\ DOMAIN registered = {<<"a">>, <<"b">>}
    /\ DOMAIN StoredUsers = {<<"a">>, <<"b">>}

\* C19: a cancel during the register flow discards the flow: afterwards the
\* user has no register conversation state and no pending username in the
\* scratch, and the credential store is as it was.
C19_CancelDiscardsFlow ==
    [][\A u \in UserIds :
          register_cancel(u)
              => /\ register_conv'[u] = END
                 /\ user_data'[u].register_username = None
                 /\ usersFile' = usersFile]_vars

\* C20: a press of a section button (data "section_<id>") by a logged-in user
\* is handled by section_callback and answered by the lookup in the user's
\* list: the section with that id, or "not found".
C20_SectionDetailIsLookedUp ==
    [][\A u \in UserIds, i \in SectionIds :
          (section_button(u, i) /\ u \in active_sessions)
              => /\ ev'.handler = "section_callback"
                 /\ IF \E s \in Range(user_sections[u]) : s.id = i
                    THEN /\ ev'.reply = "SectionDetail"
                         /\ Range(ev'.shown) \subseteq Range(user_sections[u])
                         /\ \E s \in Range(ev'.shown) : s.id = i
                    ELSE ev'.reply = "SectionNotFound"]_vars

====
